---- MODULE Spec2Model ----
(***************************************************************************)
(* A model of the Board view controller of the midnight-fundraiser UI      *)
(* (src/bboard-ui/src/components/Board.tsx).                               *)
(*                                                                         *)
(* The state is the component's props and hook cells, the two rxjs         *)
(* subscriptions its effects hold, the closure captured by the memoised    *)
(* onPostMessage callback, and the asynchronous handlers in flight.        *)
(* Every action is one event-loop turn: a user event, a stream emission,   *)
(* a prop change or the continuation of an awaited promise, together with  *)
(* the re-render and the effects that turn causes.                         *)
(*                                                                         *)
(* A button can be activated whenever it is rendered and not disabled: the *)
(* disabled attributes are keyed on the board state and the form alone,    *)
(* and neither overlay (working, error) disables what lies beneath it.     *)
(* The hook cells exist while the instance is mounted; properties of the   *)
(* controller's state are stated of a mounted controller.                  *)
(*                                                                         *)
(* Spec is the controller with one contract address; AddressSpec is the    *)
(* card header (title and copy button) for every address tried.            *)
(***************************************************************************)
EXTENDS Integers, Sequences, FiniteSets, Bags, TLC

\* ------------------------------------------------------------------ bounds
MaxStreams == 2        \* deployment streams the container supplies over time
MaxInFlight == 2       \* asynchronous handlers in flight at once
MaxAddressLen == 24    \* characters of the longest contract address tried

\* ------------------------------------------------------------------ values
\* A JavaScript `string | undefined`: def = FALSE is undefined.
Undefined == [def |-> FALSE, val |-> ""]
Str(s) == [def |-> TRUE, val |-> s]
\* The same for the funding goal, whose characters the handler inspects:
\* val is the sequence of the string's characters.
UndefinedChars == [def |-> FALSE, val |-> <<>>]
Chars(s) == [def |-> TRUE, val |-> s]

\* `!x` is false exactly for a defined, non-empty string.
Truthy(o) == o.def /\ o.val # ""
TruthyChars(o) == o.def /\ o.val # <<>>

TitleInputs == {"T"}
MessageInputs == {"", "M"}
GoalInputs == { <<>>, <<" ", "4", "2", " ">>, <<"-", "4">> }
WalletAddresses == {"addrA"}
\* What the caller passes to onJoinBoard: an address, or any other string.
JoinAddresses == {"0200c0ffee", "not an address"}
\* What a rejected promise or a throw carries: an Error (isError) with its
\* message, which may be empty, or any other value; str is the value's string
\* form.
RejectValues ==
  { [isError |-> TRUE, message |-> "E1", str |-> "Error: E1"],
    [isError |-> TRUE, message |-> "", str |-> "Error"],
    [isError |-> FALSE, message |-> "", str |-> "E2"] }
FailedMessages == {"", "F"}

FillFieldsMessage == "Please fill in all fields (title, goal, and message)"
GoalMessage == "Please enter a valid positive integer for the funding goal"
FallbackMessage == "Encountered an unexpected error."

\* ------------------------------------------------------- string functions
IsSpace(c) == c = " "

RECURSIVE TrimStart(_)
TrimStart(s) == IF s # <<>> /\ IsSpace(Head(s)) THEN TrimStart(Tail(s)) ELSE s

RECURSIVE TrimEnd(_)
TrimEnd(s) ==
  IF s # <<>> /\ IsSpace(s[Len(s)]) THEN TrimEnd(SubSeq(s, 1, Len(s) - 1)) ELSE s

\* String.prototype.trim
Trim(s) == TrimEnd(TrimStart(s))

DigitChars == {"0", "1", "2", "3", "4", "5", "6", "7", "8", "9"}

DigitValue(c) ==
  CASE c = "0" -> 0 [] c = "1" -> 1 [] c = "2" -> 2 [] c = "3" -> 3 [] c = "4" -> 4
    [] c = "5" -> 5 [] c = "6" -> 6 [] c = "7" -> 7 [] c = "8" -> 8 [] c = "9" -> 9

\* /^\d+$/.test(s)
IsDigits(s) == s # <<>> /\ \A i \in 1..Len(s) : s[i] \in DigitChars

\* BigInt(s) for a string of decimal digits
RECURSIVE BigInt(_)
BigInt(s) ==
  IF s = <<>> THEN 0 ELSE 10 * BigInt(SubSeq(s, 1, Len(s) - 1)) + DigitValue(s[Len(s)])

\* ------------------------------------------------- contract addresses
\* [A-Fa-f0-9]
HexChars ==
  { "0", "1", "2", "3", "4", "5", "6", "7", "8", "9",
    "a", "b", "c", "d", "e", "f", "A", "B", "C", "D", "E", "F" }
\* What `.` does not match.
LineTerminators == { "\n", "\r" }

\* The regular expression of toShortFormatContractAddress:
\* ^[A-Fa-f0-9]{PrefixLen}([A-Fa-f0-9]{GroupLen}).*([A-Fa-f0-9]{GroupLen})$
PrefixLen == 6
GroupLen == 8

\* The pattern matches the whole of s.
ShortFormatMatches(s) ==
  /\ Len(s) >= PrefixLen + GroupLen + GroupLen
  /\ \A i \in 1..(PrefixLen + GroupLen) : s[i] \in HexChars
  /\ \A i \in (Len(s) - GroupLen + 1)..Len(s) : s[i] \in HexChars
  /\ \A i \in (PrefixLen + GroupLen + 1)..(Len(s) - GroupLen) : s[i] \notin LineTerminators

Ellipsis == <<".", ".", ".">>

\* ShortFormat with the prefix inside the first group: the prefix is shown too.
ShortFormatKeepingPrefix(s) ==
  IF ShortFormatMatches(s)
  THEN SubSeq(s, 1, PrefixLen + GroupLen) \o Ellipsis
         \o SubSeq(s, Len(s) - GroupLen + 1, Len(s))
  ELSE s

\* contractAddress.replace(/.../g, '$1...$2'): the match (the whole string) is
\* replaced, a string the pattern does not match is returned as it is.
ShortFormat(s) ==
  IF ShortFormatMatches(s)
  THEN SubSeq(s, PrefixLen + 1, PrefixLen + GroupLen) \o Ellipsis
         \o SubSeq(s, Len(s) - GroupLen + 1, Len(s))
  ELSE s

\* toShortFormatContractAddress: the text of the span, undefined for no address.
ToShortFormatContractAddress(a) ==
  IF TruthyChars(a) THEN Chars(<<"0", "x">> \o ShortFormat(a.val)) ELSE UndefinedChars

LoadingTitle == <<"L", "o", "a", "d", "i", "n", "g", ".", ".", ".">>

\* The addresses tried: the hex strings of every length up to MaxAddressLen
\* (the n-th character is the n-th of 0..9a..fA..F, cyclically), and each of
\* them with one character replaced by a non-hex character or a line break.
HexSeq ==
  << "0", "1", "2", "3", "4", "5", "6", "7", "8", "9",
     "a", "b", "c", "d", "e", "f", "A", "B", "C", "D", "E", "F" >>
Address(n) == [i \in 1..n |-> HexSeq[((i - 1) % Len(HexSeq)) + 1]]
OtherChars == { "g", "\n" }
ContractAddresses ==
  { Address(n) : n \in 0..MaxAddressLen }
    \cup UNION { { [Address(n) EXCEPT ![i] = c] : i \in 1..n, c \in OtherChars }
                   : n \in 1..MaxAddressLen }

\* ------------------------------------------------------------ error texts
\* ErrText with the instanceof test lost: always String(error).
ErrTextAlwaysString(e) == e.str

\* error instanceof Error ? error.message : String(error)
ErrText(e) == IF e.isError THEN e.message ELSE e.str

\* ------------------------------------------------------------------- state
VARIABLES
  mounted,                \* the component instance is mounted
  boardDeploymentStream,  \* the boardDeployment$ prop: 0 is none, else a stream id
  streamPhase,            \* what the supplied stream has emitted so far
  deploymentSubs,         \* deployment streams with an active subscription
  deploymentCleanup,      \* the stream the pending effect cleanup unsubscribes (0: none)
  boardDeployment,        \* useState<BoardDeployment>()
  deployedBoardAPI,       \* useState<DeployedBBoardAPI>(): 0 is undefined, else a handle
  stateSubs,              \* handles whose state$ has an active subscription
  stateCleanup,           \* the handle the pending effect cleanup unsubscribes (0: none)
  errorMessage,           \* useState<string>()
  boardState,             \* useState<BBoardDerivedState>()
  messagePrompt,          \* useState<string>()
  titlePrompt,            \* useState<string>()
  goalPrompt,             \* useState<string>()
  isWorking,              \* useState(!!boardDeployment$)
  postCallback,           \* the values the memoised onPostMessage closed over
  ops,                    \* the asynchronous calls and handlers in flight
  deployedContractAddress,  \* the address of the contract the streams' handles are bound to
  clipboard               \* the text last handed to navigator.clipboard.writeText

vars ==
  << mounted, boardDeploymentStream, streamPhase, deploymentSubs, deploymentCleanup,
     boardDeployment, deployedBoardAPI, stateSubs, stateCleanup, errorMessage,
     boardState, messagePrompt, titlePrompt, goalPrompt, isWorking, postCallback,
     ops, deployedContractAddress, clipboard >>

deploymentVars ==
  << boardDeploymentStream, streamPhase, deploymentSubs, deploymentCleanup,
     boardDeployment, deployedBoardAPI, stateSubs, stateCleanup >>
formVars == << messagePrompt, titlePrompt, goalPrompt >>
addressVars == << deployedContractAddress, clipboard >>

NoDeployment == [status |-> "undefined", error |-> "", api |-> 0]
InProgress == [status |-> "in-progress", error |-> "", api |-> 0]
Failed(m) == [status |-> "failed", error |-> m, api |-> 0]
Deployed(a) == [status |-> "deployed", error |-> "", api |-> a]

\* A board-state snapshot; api names the handle whose state$ emitted it.
NoBoardState == [state |-> "undefined", isOwner |-> FALSE, api |-> 0]
Vacant(a) == [state |-> "vacant", isOwner |-> FALSE, api |-> a]
Occupied(a, o) == [state |-> "occupied", isOwner |-> o, api |-> a]
Snapshots(a) == {Vacant(a), Occupied(a, TRUE), Occupied(a, FALSE)}

\* The handle a deployed stream carries: one handle per stream.
ApiOf(stream) == stream

\* ------------------------------------------------------------ the closures
\* The dependency list of onPostMessage (the setters never change).
PostDeps(api, title, message, goal) == <<api, message>>

\* useCallback: a new closure over the render's values when a dependency
\* changed since the last render, the previous closure otherwise.
UseCallbackPost(api, title, message, goal) ==
  IF PostDeps(api, title, message, goal)
       # PostDeps(postCallback.deployedBoardAPI, postCallback.titlePrompt,
                  postCallback.messagePrompt, postCallback.goalPrompt)
  THEN [deployedBoardAPI |-> api, titlePrompt |-> title,
        messagePrompt |-> message, goalPrompt |-> goal]
  ELSE postCallback

\* The closure of the first render.
NoCallback ==
  [deployedBoardAPI |-> 0, titlePrompt |-> Undefined,
   messagePrompt |-> Undefined, goalPrompt |-> UndefinedChars]

\* The re-render that follows a state change.
Render == postCallback' = UseCallbackPost(deployedBoardAPI', titlePrompt', messagePrompt', goalPrompt')

\* ------------------------------------------------------------- rendering
StreamView == mounted /\ boardDeploymentStream # 0
EmptyView == mounted /\ boardDeploymentStream = 0
FormRendered == StreamView /\ boardState.state = "vacant"
ButtonsRendered == StreamView /\ deployedBoardAPI # 0
WorkingShown == StreamView /\ isWorking
ErrorShown == StreamView /\ Truthy(errorMessage)

SendTokensDisabled == boardState.state = "occupied" \/ ~TruthyChars(goalPrompt)
\* PostDisabled with the board-state test lost.
PostDisabledByMessageOnly == ~Truthy(messagePrompt)

PostDisabled == boardState.state = "occupied" \/ ~Truthy(messagePrompt)
TakeDownDisabled ==
  boardState.state = "vacant" \/ (boardState.state = "occupied" /\ ~boardState.isOwner)

SendTokensEnabled == ButtonsRendered /\ ~SendTokensDisabled
PostEnabled == ButtonsRendered /\ ~PostDisabled
TakeDownEnabled == ButtonsRendered /\ ~TakeDownDisabled

\* deployedBoardAPI?.deployedContractAddress
DeployedContractAddress ==
  IF deployedBoardAPI # 0 THEN Chars(deployedContractAddress) ELSE UndefinedChars

\* The card header's title: toShortFormatContractAddress(...) ?? 'Loading...'
Title ==
  IF ToShortFormatContractAddress(DeployedContractAddress).def
  THEN ToShortFormatContractAddress(DeployedContractAddress).val
  ELSE LoadingTitle

\* The copy button is rendered for a non-empty address, a skeleton otherwise.
CopyRendered == StreamView /\ TruthyChars(DeployedContractAddress)

\* --------------------------------------------------------------- Init
\* The state after the first render and its effects; the contract the
\* streams' handles are bound to has one of the given addresses.
InitWith(addresses) ==
  /\ deployedContractAddress \in addresses
  /\ clipboard = UndefinedChars
  /\ mounted = TRUE
  /\ boardDeploymentStream \in {0, 1}
  /\ streamPhase = "none"
  /\ deploymentSubs = IF boardDeploymentStream # 0 THEN {boardDeploymentStream} ELSE {}
  /\ deploymentCleanup = boardDeploymentStream
  /\ boardDeployment = NoDeployment
  /\ deployedBoardAPI = 0
  /\ stateSubs = {}
  /\ stateCleanup = 0
  /\ errorMessage = Undefined
  /\ boardState = NoBoardState
  /\ messagePrompt = Undefined
  /\ titlePrompt = Undefined
  /\ goalPrompt = UndefinedChars
  /\ isWorking = (boardDeploymentStream # 0)
  /\ postCallback = NoCallback
  /\ ops = EmptyBag

Init == InitWith({Address(MaxAddressLen)})

\* ------------------------------------------------- handlers in flight
\* One asynchronous handler awaiting a collaborator call. pc names the awaited
\* call; api, title, message and goalInput are what the handler's closure
\* holds; goal and walletAddress are the last two arguments of the post call
\* once it is made; address is the argument of a resolve call.
Op(kind, pc, api) ==
  [kind |-> kind, pc |-> pc, api |-> api, title |-> "", message |-> "",
   goalInput |-> <<>>, goal |-> 0, walletAddress |-> "", address |-> Undefined]

\* ops is the bag of the calls in flight: they settle in any order.
InFlight == BagToSet(ops)
Add(op) == ops (+) SetToBag({op})
Remove(op) == ops (-) SetToBag({op})
Replace(op, next) == Remove(op) (+) SetToBag({next})
HasRoom == BagCardinality(ops) < MaxInFlight

ContractKinds == {"post", "contribute", "takedown"}
Outstanding == {op \in InFlight : op.kind \in ContractKinds}

\* ------------------------------------------------ prop change and unmount
\* The container supplies a (new) deployment stream: the subscription effect's
\* cleanup runs, then the effect subscribes to the new stream.
SupplyStream ==
  /\ mounted
  /\ boardDeploymentStream < MaxStreams
  /\ boardDeploymentStream' = boardDeploymentStream + 1
  /\ streamPhase' = "none"
  /\ deploymentSubs' = (deploymentSubs \ {deploymentCleanup}) \cup {boardDeploymentStream'}
  /\ deploymentCleanup' = boardDeploymentStream'
  /\ UNCHANGED << addressVars, mounted, boardDeployment, deployedBoardAPI, stateSubs, stateCleanup,
                  errorMessage, boardState, formVars, isWorking, ops >>
  /\ Render

\* Unmount: both effects' cleanups run, and the instance's hook cells are gone
\* (they are shown as they were at construction); a handler still in flight
\* runs on, and its later set-state calls reach nothing.
Unmount ==
  /\ mounted
  /\ mounted' = FALSE
  /\ deploymentSubs' = deploymentSubs \ {deploymentCleanup}
  /\ deploymentCleanup' = 0
  /\ stateSubs' = stateSubs \ {stateCleanup}
  /\ stateCleanup' = 0
  /\ boardDeploymentStream' = 0
  /\ streamPhase' = "none"
  /\ boardDeployment' = NoDeployment
  /\ deployedBoardAPI' = 0
  /\ errorMessage' = Undefined
  /\ boardState' = NoBoardState
  /\ messagePrompt' = Undefined
  /\ titlePrompt' = Undefined
  /\ goalPrompt' = UndefinedChars
  /\ isWorking' = FALSE
  /\ postCallback' = NoCallback
  /\ UNCHANGED << ops, addressVars >>

\* A set-state call of a handler's continuation: it takes effect only while
\* the instance is mounted.
SetState(cell, value) == IF mounted THEN value ELSE cell

\* ------------------------------------------------- the deployment stream
\* FailedErrorText with the fallback lost: the payload's message as it is.
FailedErrorTextNoFallback(m) == m

\* boardDeployment.error.message.length ? boardDeployment.error.message : '...'
FailedErrorText(m) == IF m # "" THEN m ELSE FallbackMessage

\* The subscription to api.state$ the deployment effect leaves active for d.
StateSubscription(d) == IF d.status = "deployed" THEN {d.api} ELSE {}

\* The effect on boardDeployment, run for its new value d: the previous run's
\* cleanup first, then the body.
BoardDeploymentEffect(d) ==
  /\ stateSubs' = (stateSubs \ {stateCleanup}) \cup StateSubscription(d)
  /\ stateCleanup' = IF d.status = "deployed" THEN d.api ELSE 0
  /\ CASE d.status = "in-progress" ->
            UNCHANGED << isWorking, errorMessage, deployedBoardAPI >>
       [] d.status = "failed" ->
            /\ isWorking' = FALSE
            /\ errorMessage' = Str(FailedErrorText(d.error))
            /\ UNCHANGED deployedBoardAPI
       [] d.status = "deployed" ->
            /\ isWorking' = FALSE
            /\ deployedBoardAPI' = d.api
            /\ UNCHANGED errorMessage

\* The subscribed deployment stream emits d: setBoardDeployment(d), the
\* re-render, and the effect on boardDeployment.
Emit(d) ==
  /\ mounted
  /\ boardDeploymentStream \in deploymentSubs
  /\ boardDeployment' = d
  /\ BoardDeploymentEffect(d)
  /\ UNCHANGED << addressVars, mounted, boardDeploymentStream, deploymentSubs, deploymentCleanup,
                  boardState, formVars, ops >>
  /\ Render

EmitInProgress ==
  /\ streamPhase = "none"
  /\ streamPhase' = "in-progress"
  /\ Emit(InProgress)

EmitFailed ==
  /\ streamPhase \in {"none", "in-progress"}
  /\ streamPhase' = "terminal"
  /\ \E m \in FailedMessages : Emit(Failed(m))

EmitDeployed ==
  /\ streamPhase \in {"none", "in-progress"}
  /\ streamPhase' = "terminal"
  /\ Emit(Deployed(ApiOf(boardDeploymentStream)))

\* A subscribed state$ emits a snapshot: setBoardState.
EmitState ==
  /\ mounted
  /\ \E a \in stateSubs : \E snap \in Snapshots(a) : boardState' = snap
  /\ UNCHANGED << addressVars, mounted, deploymentVars, errorMessage, formVars, isWorking, ops >>
  /\ Render

\* ---------------------------------------------------------- the form
EditTitle ==
  /\ FormRendered
  /\ \E v \in TitleInputs : titlePrompt' = Str(v)
  /\ UNCHANGED << addressVars, mounted, deploymentVars, errorMessage, boardState, messagePrompt,
                  goalPrompt, isWorking, ops >>
  /\ Render

EditGoal ==
  /\ FormRendered
  /\ \E v \in GoalInputs : goalPrompt' = Chars(v)
  /\ UNCHANGED << addressVars, mounted, deploymentVars, errorMessage, boardState, messagePrompt,
                  titlePrompt, isWorking, ops >>
  /\ Render

EditMessage ==
  /\ FormRendered
  /\ \E v \in MessageInputs : messagePrompt' = Str(v)
  /\ UNCHANGED << addressVars, mounted, deploymentVars, errorMessage, boardState, titlePrompt,
                  goalPrompt, isWorking, ops >>
  /\ Render

\* ------------------------------------------------------ create and join
\* Resolve raising the working flag as the contract handlers do.
ResolveSettingWorking(address) ==
  /\ EmptyView
  /\ HasRoom
  /\ isWorking' = TRUE
  /\ ops' = Add([Op("resolve", "resolve", 0) EXCEPT !.address = address])
  /\ UNCHANGED << addressVars, mounted, deploymentVars, errorMessage, boardState, formVars,
                  postCallback >>

\* onCreateBoard / onJoinBoard: boardApiProvider.resolve(address?) is called and
\* its result handed back to the caller; nothing else is done.
Resolve(address) ==
  /\ EmptyView
  /\ HasRoom
  /\ ops' = Add([Op("resolve", "resolve", 0) EXCEPT !.address = address])
  /\ UNCHANGED << addressVars, mounted, deploymentVars, errorMessage, boardState, formVars, isWorking,
                  postCallback >>

OnCreateBoard == Resolve(Undefined)

OnJoinBoard == \E contractAddress \in JoinAddresses : Resolve(Str(contractAddress))

\* ------------------------------------------------------------- post
\* The two checks at the head of onPostMessage, on the values of its closure c:
\* "fill" and "goal" are the two early returns, "ok" falls through to the try.
PostValidation(c) ==
  IF ~Truthy(c.titlePrompt) \/ ~Truthy(c.messagePrompt) \/ ~TruthyChars(c.goalPrompt)
  THEN "fill"
  ELSE IF Trim(c.goalPrompt.val) = <<>> \/ ~IsDigits(Trim(c.goalPrompt.val))
       THEN "goal"
       ELSE "ok"

\* A click on the post button: onPostMessage up to its first await, or to its end.
OnPostMessage ==
  /\ ButtonsRendered
  /\ ~PostDisabled
  /\ LET c == postCallback IN
     CASE PostValidation(c) = "fill" ->
            /\ errorMessage' = Str(FillFieldsMessage)
            /\ UNCHANGED << isWorking, ops >>
       [] PostValidation(c) = "goal" ->
            /\ errorMessage' = Str(GoalMessage)
            /\ UNCHANGED << isWorking, ops >>
       [] PostValidation(c) = "ok" /\ c.deployedBoardAPI # 0 ->
            /\ HasRoom
            /\ ops' = Add([Op("post", "getWalletAddress", c.deployedBoardAPI)
                             EXCEPT !.title = c.titlePrompt.val,
                                    !.message = c.messagePrompt.val,
                                    !.goalInput = Trim(c.goalPrompt.val)])
            /\ UNCHANGED << isWorking, errorMessage >>
       [] PostValidation(c) = "ok" /\ c.deployedBoardAPI = 0 ->
            /\ isWorking' = FALSE
            /\ UNCHANGED << errorMessage, ops >>
  /\ UNCHANGED << addressVars, mounted, deploymentVars, boardState, formVars >>
  /\ Render

\* ThenPost without the await: post is called for a lookup that is still pending.
ThenPostNotAwaited(op, walletAddress) ==
  Add([op EXCEPT !.pc = "post",
                 !.goal = BigInt(op.goalInput),
                 !.walletAddress = walletAddress])

\* const walletState = await getWalletAddress(); ... await deployedBoardAPI.post(
\* titlePrompt, messagePrompt, BigInt(goalInput), walletAddress): the lookup is
\* over and the handler awaits the post call.
ThenPost(op, walletAddress) ==
  Replace(op, [op EXCEPT !.pc = "post",
                         !.goal = BigInt(op.goalInput),
                         !.walletAddress = walletAddress])

\* getWalletAddress resolved: setIsWorking(true), then deployedBoardAPI.post(...).
PostAfterWalletAddress ==
  \E op \in InFlight : \E walletAddress \in WalletAddresses :
    /\ op.pc = "getWalletAddress"
    /\ isWorking' = SetState(isWorking, TRUE)
    /\ ops' = ThenPost(op, walletAddress)
    /\ UNCHANGED << addressVars, mounted, deploymentVars, errorMessage, boardState, formVars,
                    postCallback >>

\* ------------------------------------------------------- contribute
\* A click on the send-tokens button: onSendToken up to its first await.
OnSendToken ==
  /\ ButtonsRendered
  /\ ~SendTokensDisabled
  /\ IF deployedBoardAPI # 0
     THEN /\ HasRoom
          /\ ops' = Add(Op("contribute", "build", deployedBoardAPI))
          /\ UNCHANGED isWorking
     ELSE /\ isWorking' = FALSE
          /\ UNCHANGED ops
  /\ UNCHANGED << addressVars, mounted, deploymentVars, errorMessage, boardState, formVars,
                  postCallback >>

\* WalletBuilder.build resolved: wallet.start(), then contributeWithWallet(wallet, 1).
\* (A throw of wallet.start() takes the catch path of a rejected build.)
SendAfterBuild ==
  \E op \in InFlight :
    /\ op.pc = "build"
    /\ ops' = Replace(op, [op EXCEPT !.pc = "contributeWithWallet"])
    /\ UNCHANGED << addressVars, mounted, deploymentVars, errorMessage, boardState, formVars, isWorking,
                    postCallback >>

\* --------------------------------------------------------- take down
\* A click on the take-down button: onDeleteMessage up to its await.
OnDeleteMessage ==
  /\ ButtonsRendered
  /\ ~TakeDownDisabled
  /\ IF deployedBoardAPI # 0
     THEN /\ HasRoom
          /\ isWorking' = TRUE
          /\ ops' = Add(Op("takedown", "takeDown", deployedBoardAPI))
     ELSE /\ isWorking' = FALSE
          /\ UNCHANGED ops
  /\ UNCHANGED << addressVars, mounted, deploymentVars, errorMessage, boardState, formVars,
                  postCallback >>

\* --------------------------------------------------- copy the address
\* A click on the copy button: navigator.clipboard.writeText(address).
OnCopyContractAddress ==
  /\ CopyRendered
  /\ clipboard' = IF deployedBoardAPI # 0 THEN DeployedContractAddress ELSE clipboard
  /\ UNCHANGED << deployedContractAddress, mounted, deploymentVars, errorMessage, boardState,
                  formVars, isWorking, postCallback, ops >>

\* ------------------------------------------------- the handlers' ends
\* The calls after which a handler's try block ends.
LastCalls == {"post", "contributeWithWallet", "takeDown"}
\* The calls a handler awaits inside a try block.
TryCalls == {"getWalletAddress", "build"} \cup LastCalls

\* Finally with the finally block lost: the flag keeps its value.
FinallyMissing(working) == working

\* finally { setIsWorking(false) }
Finally(working) == FALSE

\* The last awaited call of a contract handler resolved: the finally block.
HandlerResolves ==
  \E op \in InFlight :
    /\ op.pc \in LastCalls
    /\ isWorking' = SetState(isWorking, Finally(isWorking))
    /\ ops' = Remove(op)
    /\ UNCHANGED << addressVars, mounted, deploymentVars, errorMessage, boardState, formVars,
                    postCallback >>

\* Catch with the error swallowed: the message is reset.
CatchSwallowed(error) == Undefined

\* catch (error) { setErrorMessage(...) }
Catch(error) == Str(ErrText(error))

\* An awaited call of a contract handler rejected with error: the catch block,
\* then the finally block; the rest of the try block is skipped.
HandlerRejectsWith(error) ==
  \E op \in InFlight :
    /\ op.pc \in TryCalls
    /\ errorMessage' = SetState(errorMessage, Catch(error))
    /\ isWorking' = SetState(isWorking, Finally(isWorking))
    /\ ops' = Remove(op)
    /\ UNCHANGED << addressVars, mounted, deploymentVars, boardState, formVars, postCallback >>

HandlerRejects == \E error \in RejectValues : HandlerRejectsWith(error)

\* resolve(...) failed with error: onCreateBoard / onJoinBoard have no try
\* block, the error goes to the caller and no state is set.
ResolveRejectsWith(error) ==
  \E op \in InFlight :
    /\ op.pc = "resolve"
    /\ ops' = Remove(op)
    /\ UNCHANGED << addressVars, mounted, deploymentVars, errorMessage, boardState, formVars, isWorking,
                    postCallback >>

ResolveRejects == \E error \in RejectValues : ResolveRejectsWith(error)

\* resolve(...) returned.
ResolveReturns ==
  \E op \in InFlight :
    /\ op.pc = "resolve"
    /\ ops' = Remove(op)
    /\ UNCHANGED << addressVars, mounted, deploymentVars, errorMessage, boardState, formVars, isWorking,
                    postCallback >>

\* ------------------------------------------------------ specification
Next ==
  \/ SupplyStream
  \/ Unmount
  \/ EmitInProgress
  \/ EmitFailed
  \/ EmitDeployed
  \/ EmitState
  \/ EditTitle
  \/ EditGoal
  \/ EditMessage
  \/ OnCreateBoard
  \/ OnJoinBoard
  \/ OnPostMessage
  \/ PostAfterWalletAddress
  \/ OnSendToken
  \/ SendAfterBuild
  \/ OnDeleteMessage
  \/ HandlerResolves
  \/ HandlerRejects
  \/ ResolveRejects
  \/ ResolveReturns

Spec == Init /\ [][Next]_vars

\* The calls of a handler settle, and the supplied deployment stream reaches a
\* terminal status: the assumption that every collaborator call settles.
FairSpec ==
  /\ Spec
  /\ WF_vars(PostAfterWalletAddress \/ SendAfterBuild)
  /\ WF_vars(HandlerResolves \/ HandlerRejects)
  /\ WF_vars(EmitFailed \/ EmitDeployed)

\* The header of the card, for every address tried: the streams that deliver a
\* handle, the copy button, and unmount. (The copy handler sets no hook cell
\* and writes only the clipboard, which no other handler reads: its steps
\* commute with those of Next and are taken here.)
AddressInit == InitWith(ContractAddresses)

AddressNext ==
  \/ SupplyStream
  \/ EmitDeployed
  \/ OnCopyContractAddress
  \/ Unmount

AddressSpec == AddressInit /\ [][AddressNext]_vars

\* ------------------------------------------------------------ properties
\* What the form shows: value={xPrompt ?? ''}.
FormTitle == titlePrompt.val
FormMessage == messagePrompt.val
FormGoal == goalPrompt.val

FormFilled == FormTitle # "" /\ FormMessage # "" /\ FormGoal # <<>>
FormGoalIsInteger == IsDigits(Trim(FormGoal))

\* The step started a handler, whose record is op.
Started(op) == ops' = Add(op)

\* C1: whenever the post action is submitted while a handle is held and the
\* form's title, message and goal are non-empty with the trimmed goal matching
\* ^\d+$, a post is started that holds exactly the form's current title and
\* message and the current goal (whose integer value the post call is given),
\* whatever the order in which the fields were edited.
C1_PostUsesCurrentForm ==
  [][ (OnPostMessage /\ deployedBoardAPI # 0 /\ FormFilled /\ FormGoalIsInteger)
        => Started([Op("post", "getWalletAddress", deployedBoardAPI)
                      EXCEPT !.title = FormTitle,
                             !.message = FormMessage,
                             !.goalInput = Trim(FormGoal)]) ]_vars

\* C2: a post submission whose funding goal, trimmed, does not match ^\d+$ sets
\* a validation message and calls neither getWalletAddress nor post.
C2_BadGoalIsRejected ==
  [][ (OnPostMessage /\ ~FormGoalIsInteger)
        => /\ errorMessage' \in {Str(FillFieldsMessage), Str(GoalMessage)}
           /\ ops' = ops ]_vars

\* C3: a post submission with the title, the message or the goal empty sets the
\* fill-in-all-fields message, calls no collaborator and leaves the working flag.
C3_EmptyFieldIsRejected ==
  [][ (OnPostMessage /\ ~FormFilled)
        => /\ errorMessage' = Str(FillFieldsMessage)
           /\ ops' = ops
           /\ isWorking' = isWorking ]_vars

\* C4: while a post, takedown or contribute handler is outstanding (from its
\* first asynchronous call until it finishes), the working flag is true.
C4_WorkingWhileOutstanding == (mounted /\ Outstanding # {}) => isWorking

\* A contract handler in flight finishes in this step.
HandlerFinishes == \E op \in Outstanding : ops' = Remove(op)

\* C5: a post, takedown or contribute handler clears the working flag when it
\* finishes, by resolution or by rejection; the flag is false whenever the
\* deployment is deployed and no handler is outstanding; and, every call
\* settling, a true working flag eventually becomes false.
C5_WorkingFlagCleared ==
  /\ [][ (mounted /\ HandlerFinishes) => ~isWorking' ]_vars
  /\ [](mounted /\ boardDeployment.status = "deployed" /\ Outstanding = {} => ~isWorking)
  /\ ((mounted /\ isWorking) ~> (~mounted \/ ~isWorking))

\* C5 witness: a handler has finished by rejection, none is outstanding, and the
\* flag is down.
C5_Witness ==
  /\ mounted
  /\ boardDeployment.status = "deployed"
  /\ Outstanding = {}
  /\ errorMessage = Str("E2")
  /\ ~isWorking

\* What the catch block is to display for a rejection value.
Displayed(error) == IF error.isError THEN error.message ELSE error.str

\* C6 as amended: when a call awaited by the post, contribute or takedown
\* handler (getWalletAddress, WalletBuilder.build, post, takeDown,
\* contributeWithWallet) rejects with message m, the error message becomes m,
\* the working flag is false and the handler is over: it makes no further
\* call. (The resolve call of create and join is not wrapped.)
C6_HandlerRejectionIsCaught ==
  [][ \A error \in RejectValues :
        (mounted /\ HandlerRejectsWith(error))
          => /\ errorMessage' = Str(Displayed(error))
             /\ ~isWorking'
             /\ HandlerFinishes ]_vars

\* C6 as claimed: the same of every collaborator call, resolve included.
C6_EveryRejectionIsCaught ==
  [][ \A error \in RejectValues :
        (mounted /\ (HandlerRejectsWith(error) \/ ResolveRejectsWith(error)))
          => /\ errorMessage' = Str(Displayed(error))
             /\ ~isWorking'
             /\ BagCardinality(ops') < BagCardinality(ops) ]_vars

\* C6 witness: a call rejected with an Error while a second handler is still in
\* flight: its message is displayed and the flag is down.
C6_Witness ==
  /\ mounted
  /\ errorMessage = Str("E1")
  /\ ~isWorking
  /\ Outstanding # {}

\* C7: for a deployment stream supplied at construction or later, the working
\* indicator is shown while the latest status is in-progress and no user
\* operation has run (none can have: no handle was ever held), and it is hidden
\* once the deployed emission is processed.
C7_WorkingShownWhileInProgress ==
  [][ /\ (StreamView' /\ boardDeployment'.status = "in-progress" /\ deployedBoardAPI' = 0)
           => WorkingShown'
      /\ EmitDeployed => ~WorkingShown' ]_vars

\* C8: when the stream emits failed with message m, afterwards the error
\* message is m if m is non-empty and the fallback if it is empty, so it is
\* never empty or unset; the working flag is false; and the emission creates no
\* subscription to a contract-state stream.
C8_FailedEmission ==
  [][ EmitFailed
        => /\ boardDeployment'.status = "failed"
           /\ errorMessage'.def
           /\ errorMessage'.val # ""
           /\ errorMessage'.val = IF boardDeployment'.error # ""
                                  THEN boardDeployment'.error
                                  ELSE "Encountered an unexpected error."
           /\ ~isWorking'
           /\ stateSubs' \subseteq stateSubs ]_vars

\* C8 witness: a failed emission with an empty message has been processed.
C8_Witness ==
  /\ boardDeployment = Failed("")
  /\ errorMessage = Str("Encountered an unexpected error.")
  /\ ~isWorking
  /\ stateSubs = {}

\* C9: while the board state is occupied, post and contribute are disabled
\* whatever the form holds and take-down is enabled exactly for the owner;
\* otherwise post is enabled only with a message entered and contribute only
\* with a funding goal entered.
C9_ActionsFollowBoardState ==
  /\ (mounted /\ boardState.state = "occupied")
       => /\ ~PostEnabled
          /\ ~SendTokensEnabled
          /\ (TakeDownEnabled <=> boardState.isOwner)
  /\ (mounted /\ boardState.state # "occupied")
       => /\ (PostEnabled => FormMessage # "")
          /\ (SendTokensEnabled => FormGoal # <<>>)

\* C9 witness: an occupied snapshot owned by the caller, with the form filled.
C9_Witness ==
  /\ mounted
  /\ boardState.state = "occupied"
  /\ boardState.isOwner
  /\ FormFilled
  /\ TakeDownEnabled

\* C10: while the buttons are rendered and the board state is vacant, or no
\* snapshot has been received yet, the take-down action is disabled.
C10_TakeDownOnlyWhenOccupied ==
  (ButtonsRendered /\ boardState.state \in {"vacant", "undefined"}) => ~TakeDownEnabled

\* C11: when the error message is set and the controller processes a deployed
\* emission, the error message is unset afterwards and the error overlay is no
\* longer shown.
C11_DeployedClearsError ==
  [][ (EmitDeployed /\ Truthy(errorMessage))
        => /\ ~errorMessage'.def
           /\ ~ErrorShown' ]_vars

\* Every character of s is a hex character.
IsHexAddress(s) == \A i \in 1..Len(s) : s[i] \in HexChars

\* '0x', the 8 characters after the 6-character prefix, '...', the last 8.
TruncatedDisplay(s) ==
  <<"0", "x">> \o SubSeq(s, 7, 14) \o <<".", ".", ".">> \o SubSeq(s, Len(s) - 7, Len(s))

\* C12 as amended: for every contract address made of hex characters, the
\* title is '0x', the 8 characters after the 6-character prefix, '...' and the
\* last 8 characters when the address has at least 22 characters, and '0x'
\* followed by the whole address when it has fewer; the copy action writes the
\* full address.
C12_ShortFormatFromTwentyTwo ==
  /\ [](ButtonsRendered /\ IsHexAddress(deployedContractAddress)
          => /\ Len(deployedContractAddress) >= 22
                  => Title = TruncatedDisplay(deployedContractAddress)
             /\ Len(deployedContractAddress) \in 1..21
                  => Title = <<"0", "x">> \o deployedContractAddress)
  /\ [][ OnCopyContractAddress => clipboard' = Chars(deployedContractAddress) ]_vars

\* C12 as claimed: for every contract address made of hex characters with at
\* least 14 characters the title is the truncated display, and what the copy
\* action wrote is the full address.
C12_ShortFormatFromFourteen ==
  /\ (ButtonsRendered /\ IsHexAddress(deployedContractAddress)
        /\ Len(deployedContractAddress) >= 14)
       => Title = TruncatedDisplay(deployedContractAddress)
  /\ clipboard.def => clipboard.val = deployedContractAddress

\* C12 witness: a hex address of 24 characters is shown truncated, and the copy
\* action has written all of it.
C12_Witness ==
  /\ ButtonsRendered
  /\ IsHexAddress(deployedContractAddress)
  /\ Len(deployedContractAddress) = 24
  /\ Title = <<"0", "x">> \o <<"6", "7", "8", "9", "a", "b", "c", "d">>
               \o <<".", ".", ".">> \o <<"A", "B", "C", "D", "E", "F", "0", "1">>
  /\ clipboard = Chars(deployedContractAddress)

\* C13: the controller holds at most one active subscription to a deployment
\* stream and at most one to a contract-state stream; a replaced deployment
\* stream leaves no subscription active to it or to the state stream of its
\* deployment (the only subscriptions are to the supplied stream and to the
\* state stream of that stream's handle); after unmount none is active.
C13_SubscriptionLifecycle ==
  /\ Cardinality(deploymentSubs) <= 1
  /\ Cardinality(stateSubs) <= 1
  /\ deploymentSubs \subseteq {boardDeploymentStream}
  /\ stateSubs \subseteq {ApiOf(boardDeploymentStream)}
  /\ ~mounted => (deploymentSubs = {} /\ stateSubs = {})

\* The calls of post handlers awaiting call pc, in bag b.
Awaiting(b, pc) ==
  LET S == {op \in BagToSet(b) : op.kind = "post" /\ op.pc = pc}
  IN BagCardinality([op \in S |-> b[op]])

\* C14: in a post that passed validation, post is invoked only by the step in
\* which the pending wallet-address lookup of that submission resolves, which
\* ends the lookup, so at most once per submission; the end of a post call
\* starts no other call; and when the lookup rejects, no post is invoked for
\* the submission, the error message is set and the working flag is false.
C14_LookupThenPostOnce ==
  [][ /\ Awaiting(ops', "post") > Awaiting(ops, "post")
           => \E op \in InFlight : \E walletAddress \in WalletAddresses :
                /\ op.kind = "post"
                /\ op.pc = "getWalletAddress"
                /\ ops' = Replace(op, [op EXCEPT !.pc = "post",
                                                 !.goal = BigInt(op.goalInput),
                                                 !.walletAddress = walletAddress])
      /\ Awaiting(ops', "post") < Awaiting(ops, "post")
           => BagCardinality(ops') < BagCardinality(ops)
      /\ \A error \in RejectValues :
           (mounted /\ HandlerRejectsWith(error)
              /\ Awaiting(ops', "getWalletAddress") < Awaiting(ops, "getWalletAddress"))
             => /\ Awaiting(ops', "post") = Awaiting(ops, "post")
                /\ errorMessage' = Str(Displayed(error))
                /\ ~isWorking' ]_vars

\* C14 witness: the lookup resolved and post is in flight with the trimmed
\* goal as an integer and the wallet address, the working flag raised.
C14_Witness ==
  /\ mounted
  /\ isWorking
  /\ \E op \in InFlight :
       /\ op.pc = "post"
       /\ op.title = "T"
       /\ op.message = "M"
       /\ op.goal = 42
       /\ op.walletAddress = "addrA"
       /\ op.api = deployedBoardAPI

\* The contract handlers in flight, with their multiplicities.
OutstandingCount(b) ==
  LET S == {op \in BagToSet(b) : op.kind \in ContractKinds}
  IN BagCardinality([op \in S |-> b[op]])

\* C15: at most one post, takedown or contribute handler is outstanding at any
\* time: none can be started while one is in flight, so the end of one never
\* clears the working flag while another is still in flight.
C15_OneOperationAtATime ==
  [][ /\ OutstandingCount(ops') > OutstandingCount(ops) => OutstandingCount(ops) = 0
      /\ (HandlerFinishes /\ isWorking /\ ~isWorking') => OutstandingCount(ops') = 0 ]_vars

\* The texts the code passes to setErrorMessage.
ErrorTexts ==
  {FillFieldsMessage, GoalMessage, FallbackMessage}
    \cup FailedMessages \cup {Displayed(error) : error \in RejectValues}

\* C16: once the error message is set, no step of a mounted controller (user
\* action, end of an operation by success or failure, form edit, board-state
\* snapshot) resets it to unset: it stays as it is or is overwritten by the
\* text of another error.
C16_ErrorMessageIsNeverReset ==
  [][ (mounted' /\ errorMessage.def)
        => /\ errorMessage'.def
           /\ errorMessage' # errorMessage => errorMessage'.val \in ErrorTexts ]_vars

\* C16 witness: a validation message was set while the board was not occupied,
\* and it is still there after an occupied snapshot arrived and with no
\* operation left in flight.
C16_Witness ==
  /\ mounted
  /\ errorMessage = Str(FillFieldsMessage)
  /\ boardState.state = "occupied"
  /\ FormFilled
  /\ ops = EmptyBag

\* The hook cells of the controller.
LocalState ==
  << boardDeployment, deployedBoardAPI, boardState, messagePrompt, titlePrompt,
     goalPrompt, isWorking, errorMessage >>

\* C17: create board and join board are available exactly when no deployment
\* stream is supplied (as far as the bound on calls in flight allows);
\* invoking either calls resolve once, without an address for create and with
\* the address as given for join, and leaves every hook cell unchanged.
C17_CreateAndJoin ==
  /\ [](~EmptyView => ~ENABLED (OnCreateBoard \/ OnJoinBoard))
  /\ []((EmptyView /\ HasRoom) => (ENABLED OnCreateBoard /\ ENABLED OnJoinBoard))
  /\ [][ OnCreateBoard
           => /\ Started([Op("resolve", "resolve", 0) EXCEPT !.address = Undefined])
              /\ UNCHANGED LocalState ]_vars
  /\ [][ \A address \in JoinAddresses :
           Resolve(Str(address))
             => /\ Started([Op("resolve", "resolve", 0) EXCEPT !.address = Str(address)])
                /\ UNCHANGED LocalState ]_vars

\* C17 witness: with no stream supplied, create was invoked and join was
\* invoked with a string that is no address; both resolve calls are in flight
\* and the hook cells are as constructed.
C17_Witness ==
  /\ EmptyView
  /\ ops = SetToBag({ [Op("resolve", "resolve", 0) EXCEPT !.address = Undefined],
                      [Op("resolve", "resolve", 0) EXCEPT !.address = Str("not an address")] })
  /\ boardDeployment = NoDeployment
  /\ deployedBoardAPI = 0
  /\ boardState = NoBoardState
  /\ ~isWorking
  /\ ~errorMessage.def

\* C18: a post, takedown or contribute is started only while the latest
\* observed deployment status is deployed, and against that deployment's
\* handle: never while it is in-progress or failed.
C18_DispatchOnlyWhileDeployed ==
  [][ ((OnPostMessage \/ OnSendToken \/ OnDeleteMessage) /\ ops' # ops)
        => /\ boardDeployment.status = "deployed"
           /\ \E op \in InFlight' : ops' = Add(op) /\ op.api = boardDeployment.api ]_vars

\* C19: the board state the view holds is unset or a snapshot of the state
\* stream of the handle currently held, never one of a previous deployment.
C19_BoardStateOfHeldHandle ==
  mounted => (boardState.state = "undefined" \/ boardState.api = deployedBoardAPI)

====
